---- MODULE Spec2Model ----
(***************************************************************************)
(* caffe2/core/c10_operator.h: the bridge that exposes a caffe2 operator   *)
(* to the c10 dispatcher.                                                   *)
(*                                                                         *)
(*   make_function_schema_for_c10   builds the operator's FunctionSchema   *)
(*   _call_caffe2_op_from_c10       the kernel: pops the arguments off the *)
(*                                  stack, runs the caffe2 operator and    *)
(*                                  pushes its outputs                     *)
(*   _call_caffe2_op                constructs and runs the operator       *)
(*                                                                         *)
(* The kernel is modelled statement by statement (pc) so that the stack    *)
(* can be observed at the moment an assertion fires.                       *)
(***************************************************************************)
EXTENDS Naturals, Integers, Sequences, FiniteSets, TLC

\* ---------------------------------------------------------------- bounds
MaxInputs == 2   \* declared inputs of a registered operator
MaxOutputs == 2  \* declared outputs of a registered operator
MaxBase == 1     \* values on the stack beneath the call's arguments
MaxPrealloc == 3 \* length of a caller-supplied preallocated tensor list

\* ---------------------------------------------------------------- values
PREALLOCATED_OUTPUT_ARGNAME == "_caffe2_preallocated_outputs"

\* c10::IValue: a tagged value.  Tensors are handles (0 is the undefined
\* tensor); a tensor list is a sequence of handles.
NoneIV == [tag |-> "None", n |-> 0, elems |-> <<>>]
IntIV(i) == [tag |-> "Int", n |-> i, elems |-> <<>>]
TensorIV(t) == [tag |-> "Tensor", n |-> t, elems |-> <<>>]
TensorListIV(ts) == [tag |-> "TensorList", n |-> 0, elems |-> ts]

isNone(v) == v.tag = "None"
isTensorList(v) == v.tag = "TensorList"
toTensorListElements(v) == v.elems

UndefinedTensor == 0

\* c10::Argument(name, type, N, default_value); N is not modelled.
Argument(name, type, default) == [name |-> name, type |-> type, default |-> default]

\* c10::FunctionSchema(name, overload_name, arguments, returns)
FunctionSchema(name, overload, arguments, returns) ==
    [name |-> name, overload_name |-> overload,
     arguments |-> arguments, returns |-> returns]

OptionalTensorListType == "Optional[List[Tensor]]"
TensorListType == "List[Tensor]"

\* type->isSubtypeOf(OptionalType::create(ListType::ofTensors())):
\* a type is a subtype of Optional[T] when it is Optional[T] itself or a
\* subtype of T, so both the optional and the plain tensor list qualify.
isSubtypeOfOptionalTensorList(type) ==
    \/ type = OptionalTensorListType
    \/ type = TensorListType

\* torch::jit::pop(stack): the top value; torch::jit::drop(stack, n)
last(stack) == stack[Len(stack)]
drop(stack, n) == SubSeq(stack, 1, Len(stack) - n)
\* torch::jit::pop(stack, n): the top n values, deepest first
peekN(stack, n) == SubSeq(stack, Len(stack) - n + 1, Len(stack))
\* torch::jit::push(stack, v)
push(stack, v) == Append(stack, v)

\* ------------------------------------------------------- schema builder
\* variant: the synthetic argument is put in front of the declared inputs
make_function_schema_for_c10_front(OperatorName, ins, outs) ==
    LET actual_inputs ==
            <<Argument(PREALLOCATED_OUTPUT_ARGNAME,
                       OptionalTensorListType, "None")>> \o ins
    IN FunctionSchema("_caffe2::" \o OperatorName, "", actual_inputs, outs)

make_function_schema_for_c10(OperatorName, ins, outs) ==
    LET actual_inputs ==
            Append(ins, Argument(PREALLOCATED_OUTPUT_ARGNAME,
                                 OptionalTensorListType, "None"))
    IN FunctionSchema("_caffe2::" \o OperatorName, "", actual_inputs, outs)

\* --------------------------------------------------------------- kernel
\* variant: only the argument count is asserted
SchemaPrecondition_sizeonly(s) == Len(s.arguments) # 0

\* AT_ASSERT(schema.arguments().size() != 0 && back().type() <: Tensor[]?)
SchemaPrecondition(s) ==
    /\ Len(s.arguments) # 0
    /\ isSubtypeOfOptionalTensorList(s.arguments[Len(s.arguments)].type)

\* variant: the output count is taken from the argument list
num_outputs_args(s) == Len(s.arguments) - 1
num_outputs(s) == Len(s.returns)
num_inputs(s) == Len(s.arguments) - 1

\* outputs.resize(num_outputs) on an empty vector
resize(n) == [i \in 1..n |-> UndefinedTensor]

\* variant: the caller's buffers are ignored
ResolveOutputs_alwaysfresh(preallocated, s) == resize(num_outputs(s))

\* the output vector handed to the operator (only called once the
\* isTensorList assertion has passed)
ResolveOutputs(preallocated, s) ==
    IF isNone(preallocated) THEN resize(num_outputs(s))
    ELSE toTensorListElements(preallocated)

\* ------------------------------------------------------ caffe2 operator
\* What the operator behind call_op does with the buffers it is given:
\* hands them back, replaces each by a tensor of its own, or throws from
\* its constructor or Run.
OpBehaviours == {"reuse", "fresh", "throw"}
FreshTensor(i) == 20 + i

\* Caffe2Operator op(schema, inputs, outputs); op.Run();
\* return std::move(op).move_newstyle_outputs();
\* The operator owns one output slot per buffer it was constructed with.
_call_caffe2_op(behaviour, ins, outs) ==
    IF behaviour = "reuse" THEN outs
    ELSE [i \in 1..Len(outs) |-> FreshTensor(i)]

\* ---------------------------------------------------------------- inputs
OperatorNames == {"C10MyOperator", "C10Other"}
ArgNames == <<"input1", "argument2", "argument3", "argument4">>
RetNames == <<"output1", "output2", "output3", "output4">>
ArgTypes == {"Tensor", "int", TensorListType}

\* std::vector<c10::Argument> lists as written at a registration site
InputLists ==
    UNION {{[i \in 1..k |-> Argument(ArgNames[i], ty[i], "nullopt")] :
              ty \in [1..k -> ArgTypes]} : k \in 0..MaxInputs}
OutputLists ==
    {[i \in 1..m |-> Argument(RetNames[i], "Tensor", "nullopt")] : m \in 0..MaxOutputs}

PreallocList(n) == [i \in 1..n |-> 10 + i]

\* the IValues a caller may leave on the stack for an argument of a type;
\* for the preallocated-outputs argument this includes values of the wrong
\* kind, which the kernel asserts against
ValuesFor(type) ==
    IF type = "Tensor" THEN {TensorIV(1), TensorIV(2)}
    ELSE IF type = "int" THEN {IntIV(5)}
    ELSE IF type = TensorListType
         THEN {TensorListIV(<<31>>), TensorListIV(<<31, 32>>)}
    ELSE {NoneIV, IntIV(7), TensorIV(3)}
         \cup {TensorListIV(PreallocList(n)) : n \in 0..MaxPrealloc}

AllValues ==
    ValuesFor("Tensor") \cup ValuesFor("int") \cup ValuesFor(TensorListType)
        \cup ValuesFor(OptionalTensorListType)

ArgumentValues(s) ==
    {f \in [1..Len(s.arguments) -> AllValues] :
        \A i \in 1..Len(s.arguments) : f[i] \in ValuesFor(s.arguments[i].type)}

BaseStacks == UNION {[1..h -> {IntIV(9), TensorIV(4)}] : h \in 0..MaxBase}

\* ----------------------------------------------------------------- state
VARIABLES
    pc,                   \* position in registration / the kernel
    schema,               \* OpHandle().schema()
    declName, declInputs, declOutputs,  \* what the registration site wrote
    viaBuilder,           \* schema came from make_function_schema_for_c10
    stack,                \* c10::Stack
    stack0,               \* the stack at kernel entry
    base,                 \* the part of stack0 beneath the call's arguments
    preallocated_outputs, \* local IValue
    callerList,           \* elements held by the list object the caller passed
    outputs,              \* local std::vector<at::Tensor>
    inputs,               \* local std::vector<IValue>
    call_op,              \* behaviour of the operator behind the pointer
    opCalls,              \* number of times call_op was entered
    opInputs, opOutputs,  \* what the operator was constructed with
    opResult,             \* what move_newstyle_outputs returned
    pushed,               \* iterations of the push loop completed
    err                   \* which failure ended the call

vars == <<pc, schema, declName, declInputs, declOutputs, viaBuilder, stack,
          stack0, base, preallocated_outputs, callerList, outputs, inputs,
          call_op, opCalls, opInputs, opOutputs, opResult, pushed, err>>

regVars == <<schema, declName, declInputs, declOutputs, viaBuilder>>
callVars == <<stack0, base, call_op>>
opVars == <<opCalls, opInputs, opOutputs, opResult>>

Init ==
    /\ pc = "init"
    /\ schema = FunctionSchema("", "", <<>>, <<>>)
    /\ declName = ""
    /\ declInputs = <<>>
    /\ declOutputs = <<>>
    /\ viaBuilder = FALSE
    /\ stack = <<>>
    /\ stack0 = <<>>
    /\ base = <<>>
    /\ preallocated_outputs = NoneIV
    /\ callerList = <<>>
    /\ outputs = <<>>
    /\ inputs = <<>>
    /\ call_op = "reuse"
    /\ opCalls = 0
    /\ opInputs = <<>>
    /\ opOutputs = <<>>
    /\ opResult = <<>>
    /\ pushed = 0
    /\ err = "none"

\* C10_REGISTER_CAFFE2_OPERATOR_CPU: C10_DEFINE_OP_SCHEMA(OperatorName,
\* make_function_schema_for_c10(#OperatorName, Inputs, Outputs))
RegisterOperator ==
    /\ pc = "init"
    /\ \E name \in OperatorNames, ins \in InputLists, outs \in OutputLists :
        /\ declName' = name
        /\ declInputs' = ins
        /\ declOutputs' = outs
        /\ schema' = make_function_schema_for_c10(name, ins, outs)
    /\ viaBuilder' = TRUE
    /\ pc' = "registered"
    /\ UNCHANGED <<stack, preallocated_outputs, outputs, inputs, pushed, err>>
    /\ UNCHANGED callVars
    /\ UNCHANGED callerList
    /\ UNCHANGED opVars

\* A schema written directly as a FunctionSchema, without the builder, and
\* handed to _call_caffe2_op_from_c10.
RegisterBareSchema ==
    /\ pc = "init"
    /\ \E name \in OperatorNames, ins \in InputLists, outs \in OutputLists :
        /\ declName' = name
        /\ declInputs' = ins
        /\ declOutputs' = outs
        /\ schema' = FunctionSchema("_caffe2::" \o name, "", ins, outs)
    /\ viaBuilder' = FALSE
    /\ pc' = "registered"
    /\ UNCHANGED <<stack, preallocated_outputs, outputs, inputs, pushed, err>>
    /\ UNCHANGED callVars
    /\ UNCHANGED callerList
    /\ UNCHANGED opVars

\* call_caffe2_op_from_c10(stack, cache): the dispatcher enters the kernel
\* with one IValue per schema argument on top of the stack.
call_caffe2_op_from_c10 ==
    /\ pc = "registered"
    /\ \E b \in BaseStacks, args \in ArgumentValues(schema), op \in OpBehaviours :
        /\ base' = b
        /\ stack' = b \o args
        /\ stack0' = b \o args
        /\ callerList' = IF Len(args) > 0 /\ isTensorList(args[Len(args)])
                          THEN toTensorListElements(args[Len(args)])
                          ELSE <<>>
        /\ call_op' = op
    /\ pc' = "entry"
    /\ UNCHANGED <<preallocated_outputs, outputs, inputs, pushed, err>>
    /\ UNCHANGED regVars
    /\ UNCHANGED opVars

\* AT_ASSERT(schema.arguments().size() != 0 && ...)
CheckSchema ==
    /\ pc = "entry"
    /\ IF SchemaPrecondition(schema)
       THEN pc' = "asserted" /\ err' = err
       ELSE pc' = "failed" /\ err' = "misregistration"
    /\ UNCHANGED <<stack, preallocated_outputs, outputs, inputs, pushed>>
    /\ UNCHANGED regVars
    /\ UNCHANGED callerList
    /\ UNCHANGED callVars
    /\ UNCHANGED opVars

\* variant: the top value is read but left on the stack
PopPreallocated_peek ==
    /\ pc = "asserted"
    /\ preallocated_outputs' = last(stack)
    /\ pc' = "popped"
    /\ UNCHANGED <<stack, outputs, inputs, pushed, err>>
    /\ UNCHANGED regVars
    /\ UNCHANGED callerList
    /\ UNCHANGED callVars
    /\ UNCHANGED opVars

\* IValue preallocated_outputs = torch::jit::pop(*stack);
PopPreallocated ==
    /\ pc = "asserted"
    /\ preallocated_outputs' = last(stack)
    /\ stack' = drop(stack, 1)
    /\ pc' = "popped"
    /\ UNCHANGED <<outputs, inputs, pushed, err>>
    /\ UNCHANGED regVars
    /\ UNCHANGED callerList
    /\ UNCHANGED callVars
    /\ UNCHANGED opVars

\* variant: the inputs are popped before the tensor-list assertion
ResolveOutputBuffers_late ==
    /\ pc = "popped"
    /\ IF isNone(preallocated_outputs) \/ isTensorList(preallocated_outputs)
       THEN /\ outputs' = ResolveOutputs(preallocated_outputs, schema)
            /\ preallocated_outputs' = NoneIV
            /\ callerList' = <<>>
            /\ pc' = "resolved"
            /\ err' = err
            /\ stack' = stack
       ELSE /\ outputs' = outputs
            /\ UNCHANGED <<preallocated_outputs, callerList>>
            /\ pc' = "failed"
            /\ err' = "type_mismatch"
            /\ stack' = drop(stack, num_inputs(schema))
    /\ UNCHANGED <<inputs, pushed>>
    /\ UNCHANGED regVars
    /\ UNCHANGED callVars
    /\ UNCHANGED opVars

\* if (preallocated_outputs.isNone()) outputs.resize(num_outputs);
\* else { AT_ASSERT(preallocated_outputs.isTensorList()); outputs = ...; }
\* std::move(preallocated_outputs).toTensorList() leaves the local IValue
\* None, and std::move(*list).elements() takes the elements out of the list
\* object itself.
ResolveOutputBuffers ==
    /\ pc = "popped"
    /\ IF isNone(preallocated_outputs) \/ isTensorList(preallocated_outputs)
       THEN /\ outputs' = ResolveOutputs(preallocated_outputs, schema)
            /\ preallocated_outputs' = NoneIV
            /\ callerList' = <<>>
            /\ pc' = "resolved"
            /\ err' = err
       ELSE /\ outputs' = outputs
            /\ UNCHANGED <<preallocated_outputs, callerList>>
            /\ pc' = "failed"
            /\ err' = "type_mismatch"
    /\ UNCHANGED <<stack, inputs, pushed>>
    /\ UNCHANGED regVars
    /\ UNCHANGED callVars
    /\ UNCHANGED opVars

\* variant: the inputs are read but left on the stack
PopInputs_peek ==
    /\ pc = "resolved"
    /\ inputs' = peekN(stack, num_inputs(schema))
    /\ pc' = "inputs_popped"
    /\ UNCHANGED <<stack, preallocated_outputs, outputs, pushed, err>>
    /\ UNCHANGED regVars
    /\ UNCHANGED callerList
    /\ UNCHANGED callVars
    /\ UNCHANGED opVars

\* variant: the whole stack is cleared
PopInputs_clear ==
    /\ pc = "resolved"
    /\ inputs' = peekN(stack, num_inputs(schema))
    /\ stack' = <<>>
    /\ pc' = "inputs_popped"
    /\ UNCHANGED <<preallocated_outputs, outputs, pushed, err>>
    /\ UNCHANGED regVars
    /\ UNCHANGED callerList
    /\ UNCHANGED callVars
    /\ UNCHANGED opVars

\* std::vector<IValue> inputs = torch::jit::pop(*stack, num_inputs);
PopInputs ==
    /\ pc = "resolved"
    /\ inputs' = peekN(stack, num_inputs(schema))
    /\ stack' = drop(stack, num_inputs(schema))
    /\ pc' = "inputs_popped"
    /\ UNCHANGED <<preallocated_outputs, outputs, pushed, err>>
    /\ UNCHANGED regVars
    /\ UNCHANGED callerList
    /\ UNCHANGED callVars
    /\ UNCHANGED opVars

\* variant: a failing operator's buffers are pushed before the failure
\* propagates
CallOp_partial ==
    /\ pc = "inputs_popped"
    /\ opCalls' = opCalls + 1
    /\ opInputs' = inputs
    /\ opOutputs' = outputs
    /\ inputs' = <<>>
    /\ IF call_op = "throw"
       THEN /\ outputs' = <<>>
            /\ opResult' = opResult
            /\ stack' = stack \o [i \in 1..Len(outputs) |-> TensorIV(outputs[i])]
            /\ pc' = "failed"
            /\ err' = "op_failure"
       ELSE /\ outputs' = _call_caffe2_op(call_op, inputs, outputs)
            /\ opResult' = _call_caffe2_op(call_op, inputs, outputs)
            /\ stack' = stack
            /\ pc' = "pushing"
            /\ err' = err
    /\ UNCHANGED <<preallocated_outputs, pushed>>
    /\ UNCHANGED regVars
    /\ UNCHANGED callerList
    /\ UNCHANGED callVars

\* outputs = (*call_op)(schema, std::move(inputs), std::move(outputs));
CallOp ==
    /\ pc = "inputs_popped"
    /\ opCalls' = opCalls + 1
    /\ opInputs' = inputs
    /\ opOutputs' = outputs
    /\ inputs' = <<>>
    /\ IF call_op = "throw"
       THEN /\ outputs' = <<>>
            /\ opResult' = opResult
            /\ pc' = "failed"
            /\ err' = "op_failure"
       ELSE /\ outputs' = _call_caffe2_op(call_op, inputs, outputs)
            /\ opResult' = _call_caffe2_op(call_op, inputs, outputs)
            /\ pc' = "pushing"
            /\ err' = err
    /\ UNCHANGED <<stack, preallocated_outputs, pushed>>
    /\ UNCHANGED regVars
    /\ UNCHANGED callerList
    /\ UNCHANGED callVars

\* variant: the outputs are pushed last first
PushOutput_reversed ==
    /\ pc = "pushing"
    /\ pushed < Len(outputs)
    /\ stack' = push(stack, TensorIV(outputs[Len(outputs) - pushed]))
    /\ outputs' = [outputs EXCEPT ![Len(outputs) - pushed] = UndefinedTensor]
    /\ pushed' = pushed + 1
    /\ UNCHANGED <<pc, preallocated_outputs, inputs, err>>
    /\ UNCHANGED regVars
    /\ UNCHANGED callerList
    /\ UNCHANGED callVars
    /\ UNCHANGED opVars

\* for (auto&& output : std::move(outputs))
\*   torch::jit::push(*stack, std::move(output));
\* each pushed tensor is moved out of the vector, leaving an undefined one
PushOutput ==
    /\ pc = "pushing"
    /\ pushed < Len(outputs)
    /\ stack' = push(stack, TensorIV(outputs[pushed + 1]))
    /\ outputs' = [outputs EXCEPT ![pushed + 1] = UndefinedTensor]
    /\ pushed' = pushed + 1
    /\ UNCHANGED <<pc, preallocated_outputs, inputs, err>>
    /\ UNCHANGED regVars
    /\ UNCHANGED callerList
    /\ UNCHANGED callVars
    /\ UNCHANGED opVars

\* the loop is exhausted and the kernel returns
Return ==
    /\ pc = "pushing"
    /\ pushed = Len(outputs)
    /\ pc' = "done"
    /\ UNCHANGED <<stack, preallocated_outputs, outputs, inputs, pushed, err>>
    /\ UNCHANGED regVars
    /\ UNCHANGED callerList
    /\ UNCHANGED callVars
    /\ UNCHANGED opVars

Next ==
    \/ RegisterOperator
    \/ RegisterBareSchema
    \/ call_caffe2_op_from_c10
    \/ CheckSchema
    \/ PopPreallocated
    \/ ResolveOutputBuffers
    \/ PopInputs
    \/ CallOp
    \/ PushOutput
    \/ Return

Spec == Init /\ [][Next]_vars

\* ------------------------------------------------------------- typing
TypeOK ==
    /\ pc \in {"init", "registered", "entry", "asserted", "popped", "resolved",
               "inputs_popped", "pushing", "done", "failed"}
    /\ err \in {"none", "misregistration", "type_mismatch", "op_failure"}
    /\ (pc = "failed") = (err # "none")
    /\ pushed \in 0..Len(outputs)
    /\ Len(stack) >= Len(base)
    /\ pc \in {"pushing", "done"} =>
          \A i \in 1..pushed : outputs[i] = UndefinedTensor
    /\ pc \in {"resolved", "inputs_popped", "pushing", "done"} =>
          /\ isNone(preallocated_outputs)
          /\ callerList = <<>>

\* -------------------------------------------------- vocabulary of claims
\* The quantities the properties speak of, read off the schema and the
\* entry stack directly.
InCall == pc \notin {"init", "registered"}
K == Len(schema.arguments) - 1         \* declared inputs without the synthetic one
M == Len(schema.returns)               \* declared results
H == Len(stack0) - Len(schema.arguments)  \* values beneath the arguments
Synthetic0 == stack0[Len(stack0)]      \* the value on top of the entry stack
Inputs0 == SubSeq(stack0, H + 1, H + K)
Below0 == SubSeq(stack0, 1, H)
AsIValues(ts) == [i \in 1..Len(ts) |-> TensorIV(ts[i])]
WellFormed(s) ==
    /\ Len(s.arguments) > 0
    /\ s.arguments[Len(s.arguments)].type = "Optional[List[Tensor]]"

\* C1: a completed call whose synthetic value was None leaves, in place of
\* the k+1 argument values, exactly m values: the operator's results, first
\* result deepest and last result on top.
C1_NonePostcondition ==
    (pc = "done" /\ isNone(Synthetic0)) =>
        /\ Len(opResult) = M
        /\ Len(stack) = H + M
        /\ SubSeq(stack, 1, H) = Below0
        /\ \A i \in 1..M : stack[H + i] = TensorIV(opResult[i])

C1_Witness ==
    /\ pc = "done"
    /\ isNone(Synthetic0)
    /\ K = 2 /\ M = 2 /\ H = 1
    /\ call_op = "fresh"
    /\ stack = Below0 \o <<TensorIV(21), TensorIV(22)>>

\* C2: the schema built by make_function_schema_for_c10 has the declared
\* inputs in order followed by exactly one extra, last parameter named
\* "_caffe2_preallocated_outputs" of type optional tensor list with default
\* None; its returns are the declared outputs; its name is "_caffe2::" plus
\* the operator name.
C2_BuiltSchema ==
    (viaBuilder /\ pc # "init") =>
        /\ Len(schema.arguments) = Len(declInputs) + 1
        /\ \A i \in 1..Len(declInputs) : schema.arguments[i] = declInputs[i]
        /\ schema.arguments[Len(declInputs) + 1].name = "_caffe2_preallocated_outputs"
        /\ schema.arguments[Len(declInputs) + 1].type = "Optional[List[Tensor]]"
        /\ schema.arguments[Len(declInputs) + 1].default = "None"
        /\ schema.returns = declOutputs
        /\ (declName = "C10MyOperator" => schema.name = "_caffe2::C10MyOperator")
        /\ (declName = "C10Other" => schema.name = "_caffe2::C10Other")
        /\ schema.name # "_caffe2::"

C2_Witness ==
    /\ viaBuilder
    /\ pc = "registered"
    /\ Len(declInputs) = 2 /\ Len(declOutputs) = 1
    /\ Len(schema.arguments) = 3

C2_WitnessEmpty ==
    /\ viaBuilder
    /\ pc = "registered"
    /\ declInputs = <<>> /\ declOutputs = <<>>

\* The last parameter's type is one the assertion of the kernel lets pass.
AcceptedLast(s) ==
    /\ Len(s.arguments) > 0
    /\ s.arguments[Len(s.arguments)].type \in {"Optional[List[Tensor]]", "List[Tensor]"}

C3_WitnessTensorList ==
    /\ pc = "done"
    /\ ~viaBuilder
    /\ Len(schema.arguments) = 2
    /\ schema.arguments[2].type = "List[Tensor]"
    /\ opCalls = 1
    /\ opOutputs = <<31, 32>>

C3_WitnessNoArgs ==
    /\ pc = "failed"
    /\ err = "misregistration"
    /\ Len(schema.arguments) = 0

\* C4: a call either completes having pushed every output, or fails before
\* any output is pushed; a failed call has pushed nothing, and call_op is
\* entered at most once per call.
C4_AllOrNothing ==
    /\ pc = "failed" =>
          /\ pushed = 0
          /\ Len(stack) <= Len(stack0)
          /\ stack = SubSeq(stack0, 1, Len(stack))
    /\ pc = "done" =>
          /\ pushed = Len(opResult)
          /\ SubSeq(stack, Len(stack) - Len(opResult) + 1, Len(stack)) = AsIValues(opResult)
    /\ opCalls <= 1
    /\ (pc = "failed" /\ err # "op_failure") => opCalls = 0

C4_Witness ==
    /\ pc = "failed"
    /\ err = "op_failure"
    /\ opCalls = 1
    /\ Len(opOutputs) = 2
    /\ pushed = 0

\* C5: a caller-supplied tensor list of length exactly m reaches the
\* operator as its output set, same handles in the same order; when the
\* operator returns them unchanged they are what ends up on the stack.
C5_PreallocatedIdentity ==
    (InCall /\ WellFormed(schema) /\ isTensorList(Synthetic0)
        /\ Len(Synthetic0.elems) = M) =>
        /\ opCalls > 0 => opOutputs = Synthetic0.elems
        /\ (pc = "done" /\ opResult = opOutputs) =>
              stack = Below0 \o AsIValues(Synthetic0.elems)

C5_Witness ==
    /\ pc = "done"
    /\ isTensorList(Synthetic0)
    /\ M = 2
    /\ opOutputs = <<11, 12>>
    /\ call_op = "reuse"
    /\ stack = Below0 \o <<TensorIV(11), TensorIV(12)>>

\* C6 as stated: every completed call, whatever the synthetic value was,
\* leaves the stack num_outputs - num_inputs - 1 higher than at entry.
C6_HeightAnyLength ==
    pc = "done" => Len(stack) = Len(stack0) + M - K - 1

\* C6 amended: a completed call replaces the num_inputs + 1 argument values
\* by exactly the values the operator returned, one per buffer it was
\* given; the height change is num_outputs - num_inputs - 1 when the
\* synthetic value was None or a tensor list of length num_outputs, and
\* L - num_inputs - 1 for a tensor list of any other length L.
C6_HeightMatchingLength ==
    pc = "done" =>
        /\ Len(stack) = Len(stack0) - (K + 1) + Len(opResult)
        /\ (isNone(Synthetic0) \/ Len(Synthetic0.elems) = M) =>
              Len(stack) = Len(stack0) + M - K - 1
        /\ (isTensorList(Synthetic0) /\ Len(Synthetic0.elems) # M) =>
              Len(stack) = Len(stack0) + Len(Synthetic0.elems) - K - 1

C6_Witness ==
    /\ pc = "done"
    /\ isTensorList(Synthetic0)
    /\ Len(Synthetic0.elems) = M
    /\ M = 2 /\ K = 1
    /\ Len(stack) = Len(stack0)

C6_WitnessMismatch ==
    /\ pc = "done"
    /\ isTensorList(Synthetic0)
    /\ Len(Synthetic0.elems) = 3 /\ M = 1
    /\ Len(stack) = H + 3

C8_FreshPlaceholders ==
    (InCall /\ WellFormed(schema) /\ isNone(Synthetic0)) =>
        /\ pc \in {"resolved", "inputs_popped"} =>
              /\ Len(outputs) = M
              /\ \A i \in 1..Len(outputs) : outputs[i] = 0
        /\ opCalls > 0 =>
              /\ Len(opOutputs) = M
              /\ \A i \in 1..Len(opOutputs) : opOutputs[i] = 0

C8_Witness ==
    /\ opCalls = 1
    /\ isNone(Synthetic0)
    /\ M = 2 /\ K = 1
    /\ opOutputs = <<0, 0>>

C8_WitnessZero ==
    /\ opCalls = 1
    /\ isNone(Synthetic0)
    /\ M = 0
    /\ opOutputs = <<>>

\* C9: the values beneath the call's arguments are unchanged, in content
\* and order, at every point of the call and after it returns or fails.
C9_Frame ==
    InCall =>
        /\ Len(stack) >= H
        /\ SubSeq(stack, 1, H) = Below0

C9_Witness ==
    /\ pc = "inputs_popped"
    /\ H = 1 /\ K = 2
    /\ stack = Below0
    /\ Len(stack) = 1

\* C10: with a well-formed schema and a synthetic value that is neither
\* None nor a tensor list, the call fails with the type-mismatch assertion
\* after exactly the synthetic value has been popped: the inputs are still
\* on the stack, no operator has been constructed, and the stack is not
\* restored.
C10_TypeMismatch ==
    (InCall /\ WellFormed(schema) /\ ~isNone(Synthetic0) /\ ~isTensorList(Synthetic0)) =>
        /\ pc \in {"entry", "asserted", "popped", "failed"}
        /\ opCalls = 0
        /\ pc = "failed" =>
              /\ err = "type_mismatch"
              /\ stack = SubSeq(stack0, 1, Len(stack0) - 1)
              /\ stack # stack0
              /\ SubSeq(stack, Len(stack) - K + 1, Len(stack)) = Inputs0
              /\ inputs = <<>>

C10_Witness ==
    /\ pc = "failed"
    /\ err = "type_mismatch"
    /\ K = 2
    /\ Synthetic0 = IntIV(7)
    /\ Len(stack) = Len(stack0) - 1

====
